---- MODULE Spec2Model ----
(***************************************************************************)
(* A model of samsoft4k1.0update.py: the spatial grid (SpatialGrid), the   *)
(* level (Level), the body's physics tick (Mario.step), the fixed-step     *)
(* frame loop (play_level) and the map of levels (Overworld, main).        *)
(*                                                                         *)
(* Python floats are IEEE-754 doubles.  Every float the program computes   *)
(* is a multiple of 2^-64 below 2^16 in magnitude, so a float is modelled  *)
(* exactly as a sign and five base-2^16 limbs (least significant first) in *)
(* units of 2^-64, and every arithmetic result is rounded to 53            *)
(* significant bits, ties to even, as the hardware does.                   *)
(***************************************************************************)
EXTENDS Integers, Sequences, FiniteSets, TLC

VARIABLES
    rects,        \* the Rect objects handed to a SpatialGrid so far, in creation order
    grid,         \* that SpatialGrid's grid: cell -> sequence of indices into rects
    level,        \* the Level of the session, immutable once built: an index into Levels
    mario,        \* the Mario object: pos, vel, rect.x/rect.y, on_ground
    keys,         \* the pressed-keys snapshot last read (play_level) or passed (step)
    mid,          \* the body inside the last Mario.step, right after line 159
    player,       \* which snapshots the input source delivers (the environment)
    ticks,        \* fixed ticks executed so far
    clearing,     \* play_level's local
    walking,      \* play_level's local
    accumulator,  \* play_level's local (a float)
    camera_x,     \* play_level's local
    outcome,      \* "running", "cleared" / "aborted" (play_level returned), "quit";
                  \* "none" on the map before the first level is entered
    elapsed_ms,   \* sum of the dt_ms the clock returned so far
    frames,       \* rendered frames so far
    keys_uses,    \* ticks that Mario.step was called with the current snapshot
    pc,           \* where play_level's loop stands: "events" (line 278) or "drain" (line 291)
    overworld,    \* main's Overworld object: current_index, unlocked
    entered       \* the level_num main has called play_level with, 0 on the map

vars == <<rects, grid, level, mario, keys, mid, player, ticks, clearing,
          walking, accumulator, camera_x, outcome, elapsed_ms, frames, keys_uses,
          pc, overworld, entered>>

----------------------------------------------------------------------------
(* Program constants *)

W == 800
H == 600
TILE == 40
FPS == 60
MAX_WALK == 4
MAX_RUN == 6
TERMINAL_VY == 12
LEVEL_WIDTH == 2000
MARIO_W == 32
MARIO_H == 32
NUM_PLATFORMS == 20
SPAWN_X == 50
TOTAL_LEVELS == 32
COLS == 8
SPAWN_Y == H - 100

----------------------------------------------------------------------------
(* IEEE-754 doubles *)

LimbBase == 2 ^ 16

Pow2(n) == 2 ^ n

RECURSIVE BitLen(_)
BitLen(x) == IF x = 0 THEN 0 ELSE 1 + BitLen(x \div 2)

BZero == <<0, 0, 0, 0, 0>>

BAdd(a, b) ==
    LET s1 == a[1] + b[1]
        s2 == a[2] + b[2] + (s1 \div LimbBase)
        s3 == a[3] + b[3] + (s2 \div LimbBase)
        s4 == a[4] + b[4] + (s3 \div LimbBase)
        s5 == a[5] + b[5] + (s4 \div LimbBase)
    IN  <<s1 % LimbBase, s2 % LimbBase, s3 % LimbBase, s4 % LimbBase, s5>>

\* a - b for a >= b
BSub(a, b) ==
    LET d1 == a[1] - b[1]
        d2 == a[2] - b[2] + (d1 \div LimbBase)
        d3 == a[3] - b[3] + (d2 \div LimbBase)
        d4 == a[4] - b[4] + (d3 \div LimbBase)
        d5 == a[5] - b[5] + (d4 \div LimbBase)
    IN  <<d1 % LimbBase, d2 % LimbBase, d3 % LimbBase, d4 % LimbBase, d5>>

\* -1, 0, 1 as a < b, a = b, a > b
BCmp(a, b) ==
    IF a[5] # b[5] THEN (IF a[5] < b[5] THEN -1 ELSE 1)
    ELSE IF a[4] # b[4] THEN (IF a[4] < b[4] THEN -1 ELSE 1)
    ELSE IF a[3] # b[3] THEN (IF a[3] < b[3] THEN -1 ELSE 1)
    ELSE IF a[2] # b[2] THEN (IF a[2] < b[2] THEN -1 ELSE 1)
    ELSE IF a[1] # b[1] THEN (IF a[1] < b[1] THEN -1 ELSE 1)
    ELSE 0

BBits(a) ==
    IF a[5] # 0 THEN 64 + BitLen(a[5])
    ELSE IF a[4] # 0 THEN 48 + BitLen(a[4])
    ELSE IF a[3] # 0 THEN 32 + BitLen(a[3])
    ELSE IF a[2] # 0 THEN 16 + BitLen(a[2])
    ELSE BitLen(a[1])

\* Round a magnitude to 53 significant bits, ties to even; sticky says that the
\* exact value lies strictly above the magnitude given (a truncated quotient).
Round53(a, sticky) ==
    LET d == BBits(a) - 53
    IN  IF d <= 0 THEN a
        ELSE
        LET q == d \div 16
            r == d % 16
            low == IF q = 0 THEN a[1] % Pow2(r)
                   ELSE a[1] + (a[2] % Pow2(r)) * LimbBase
            half == Pow2(d - 1)
            lsb == (a[q + 1] \div Pow2(r)) % 2
            up == low > half \/ (low = half /\ (sticky \/ lsb = 1))
            cut == [i \in 1..5 |->
                      IF i <= q THEN 0
                      ELSE IF i = q + 1 THEN a[i] - (a[i] % Pow2(r))
                      ELSE a[i]]
            one == [i \in 1..5 |-> IF i = q + 1 THEN Pow2(r) ELSE 0]
        IN  IF up THEN BAdd(cut, one) ELSE cut

F(neg, mag) == [neg |-> neg /\ mag # BZero, mag |-> mag]

FZero == F(FALSE, BZero)

\* float(n) for an int n, |n| < 2^16
FInt(n) == F(n < 0, <<0, 0, 0, 0, IF n < 0 THEN -n ELSE n>>)

FNeg(a) == F(~a.neg, a.mag)

FAdd(a, b) ==
    IF a.neg = b.neg THEN F(a.neg, Round53(BAdd(a.mag, b.mag), FALSE))
    ELSE IF BCmp(a.mag, b.mag) >= 0
         THEN F(a.neg, Round53(BSub(a.mag, b.mag), FALSE))
         ELSE F(b.neg, Round53(BSub(b.mag, a.mag), FALSE))

FSub(a, b) == FAdd(a, FNeg(b))

\* -1, 0, 1 as a < b, a = b, a > b
FCmp(a, b) ==
    IF a.neg /\ ~b.neg THEN -1
    ELSE IF ~a.neg /\ b.neg THEN 1
    ELSE IF a.neg THEN BCmp(b.mag, a.mag)
    ELSE BCmp(a.mag, b.mag)

FLt(a, b) == FCmp(a, b) < 0
FLe(a, b) == FCmp(a, b) <= 0
FGt(a, b) == FCmp(a, b) > 0
FGe(a, b) == FCmp(a, b) >= 0

\* Python's max(a, b) and min(a, b): the first argument unless the second is
\* strictly greater (smaller)
FMax(a, b) == IF FGt(b, a) THEN b ELSE a
FMin(a, b) == IF FLt(b, a) THEN b ELSE a

\* int(x): truncation toward zero
FTrunc(a) == IF a.neg THEN -a.mag[5] ELSE a.mag[5]

\* p / q for ints 0 < p < 2^16, 0 < q < 2^10 with p / q >= 2^-11: the double
\* nearest the quotient (long division of p * 2^64 by q, limb by limb)
FDiv(p, q) ==
    LET q5 == p \div q
        r5 == p % q
        q4 == (r5 * LimbBase) \div q
        r4 == (r5 * LimbBase) % q
        q3 == (r4 * LimbBase) \div q
        r3 == (r4 * LimbBase) % q
        q2 == (r3 * LimbBase) \div q
        r2 == (r3 * LimbBase) % q
        q1 == (r2 * LimbBase) \div q
        r1 == (r2 * LimbBase) % q
    IN  F(FALSE, Round53(<<q1, q2, q3, q4, q5>>, r1 # 0))

GRAVITY == FDiv(55, 100)
JUMP_VELOCITY == FNeg(FDiv(115, 10))
WALK_ACCEL == FDiv(4, 10)
RUN_ACCEL == FDiv(6, 10)
FRICTION == FDiv(2, 10)
FIXED_DT == FDiv(1, FPS)

Evaluated(v) == v = v

----------------------------------------------------------------------------
(* pygame.Rect: integer x, y, w, h *)

Rect(x, y, w, h) == [x |-> x, y |-> y, w |-> w, h |-> h]

Right(r) == r.x + r.w
Bottom(r) == r.y + r.h
CenterX(r) == r.x + (r.w \div 2)

\* Rect.inflate: grown by dx, dy around the same centre
Inflate(r, dx, dy) == Rect(r.x - (dx \div 2), r.y - (dy \div 2), r.w + dx, r.h + dy)

\* the lower and the upper end of an extent that starts at p and is w long
\* (w may be negative)
Lo(p, w) == IF w < 0 THEN p + w ELSE p
Hi(p, w) == IF w < 0 THEN p ELSE p + w

\* Rect.colliderect: a proper overlap; rectangles that only touch do not
\* collide, and a rectangle of width or height 0 collides with nothing
CollideRect(a, b) ==
    /\ a.w # 0 /\ a.h # 0 /\ b.w # 0 /\ b.h # 0
    /\ Lo(a.x, a.w) < Hi(b.x, b.w) /\ Lo(b.x, b.w) < Hi(a.x, a.w)
    /\ Lo(a.y, a.h) < Hi(b.y, b.h) /\ Lo(b.y, b.h) < Hi(a.y, a.h)

----------------------------------------------------------------------------
(* SpatialGrid *)

\* SpatialGrid._cells_for: the cells of rect, x outermost, in generation order
CellsFor(rect) ==
    LET cs == TILE
        x0 == rect.x \div cs
        x1 == (Right(rect) - 1) \div cs
        y0 == rect.y \div cs
        y1 == (Bottom(rect) - 1) \div cs
        nx == x1 - x0 + 1
        ny == y1 - y0 + 1
    IN  IF nx <= 0 \/ ny <= 0 THEN << >>
        ELSE [i \in 1..(nx * ny) |-> <<x0 + ((i - 1) \div ny), y0 + ((i - 1) % ny)>>]

\* self.grid[c].append(rect) on a defaultdict(list); a rectangle is held by
\* reference, modelled as its index id in the level's list
BucketAppend(g, c, id) ==
    IF c \in DOMAIN g THEN [g EXCEPT ![c] = Append(@, id)]
    ELSE g @@ (c :> <<id>>)

RECURSIVE AddCells(_, _, _, _)
AddCells(g, cells, i, id) ==
    IF i > Len(cells) THEN g
    ELSE AddCells(BucketAppend(g, cells[i], id), cells, i + 1, id)

\* an add that files the rectangle under the cell of its top-left corner only
GridAddCornerOnly(g, rect, id) ==
    IF CellsFor(rect) = << >> THEN g ELSE BucketAppend(g, CellsFor(rect)[1], id)

\* SpatialGrid.add
GridAdd(g, rect, id) == AddCells(g, CellsFor(rect), 1, id)

InSeq(x, s) == \E j \in 1..Len(s) : s[j] = x

\* the inner loop of query over one bucket: append what was not seen before
RECURSIVE ScanBucket(_, _, _)
ScanBucket(out, lst, j) ==
    IF j > Len(lst) THEN out
    ELSE ScanBucket(IF InSeq(lst[j], out) THEN out ELSE Append(out, lst[j]), lst, j + 1)

RECURSIVE ScanCells(_, _, _, _)
ScanCells(g, cells, i, out) ==
    IF i > Len(cells) THEN out
    ELSE LET out1 == IF cells[i] \in DOMAIN g THEN ScanBucket(out, g[cells[i]], 1)
                     ELSE out
         IN  IF Evaluated(out1) THEN ScanCells(g, cells, i + 1, out1) ELSE out1

\* a query that appends every bucket whole, without the seen set
RECURSIVE ConcatCells(_, _, _, _)
ConcatCells(g, cells, i, out) ==
    IF i > Len(cells) THEN out
    ELSE LET out1 == IF cells[i] \in DOMAIN g THEN out \o g[cells[i]] ELSE out
         IN  IF Evaluated(out1) THEN ConcatCells(g, cells, i + 1, out1) ELSE out1

QueryNoSeen(g, rect) == ConcatCells(g, CellsFor(rect), 1, << >>)

\* SpatialGrid.query: the ids in the cells of rect, each once, in scan order
Query(g, rect) == ScanCells(g, CellsFor(rect), 1, << >>)

----------------------------------------------------------------------------
(* Level *)

EmptyGrid == << >>

FlagRect == Rect(LEVEL_WIDTH - 500, H - 200, 20, 160)

\* Level.build's ground row: one tile per column, x = 0, TILE, ... < width
GroundRects == [i \in 1..((LEVEL_WIDTH + TILE - 1) \div TILE) |->
                   Rect((i - 1) * TILE, H - TILE, TILE, TILE)]

\* Level.build with the random platforms drawn as layout, a sequence of <<x, y>>
LevelRects(layout) ==
    GroundRects \o [i \in 1..Len(layout) |-> Rect(layout[i][1], layout[i][2], TILE, TILE)]

\* Outcomes of the 20 random draws of Level.build (x in 200..width-200, y one of
\* H-200, H-300): the platforms near the spawn point as listed, every other draw
\* landing on <<LEVEL_WIDTH - 200, H - 300>>, out of the body's reach
Drawn(near) ==
    near \o [i \in 1..(NUM_PLATFORMS - Len(near)) |-> <<LEVEL_WIDTH - 200, H - 300>>]

\* Level._add_block of the i-th rectangle, if there is one
AddBlock(g, rs, i) == IF i <= Len(rs) THEN GridAdd(g, rs[i], i) ELSE g

\* Level._add_block for every rectangle in turn: the grid after construction.
\* (Five adds per level of the recursion, each evaluated where it stands: TLC
\* overflows its stack on a recursion as deep as a level has tiles.)
RECURSIVE GridOf(_, _, _)
GridOf(g, rs, i) ==
    IF i > Len(rs) THEN g
    ELSE LET g1 == AddBlock(AddBlock(AddBlock(AddBlock(AddBlock(
                       g, rs, i), rs, i + 1), rs, i + 2), rs, i + 3), rs, i + 4)
         IN  IF Evaluated(g1) THEN GridOf(g1, rs, i + 5) ELSE g1

\* Level.__init__: the list of platforms and the grid filled by _add_block
Level(layout) ==
    [platforms |-> LevelRects(layout),
     grid |-> GridOf(EmptyGrid, LevelRects(layout), 1)]

\* Outcomes of the 20 draws with no two platforms intersecting: the platforms
\* near the spawn point as listed, the other draws in a row of the upper band
Spread(near) ==
    near \o [i \in 1..(NUM_PLATFORMS - Len(near)) |-> <<600 + (TILE + 10) * i, H - 300>>]

Levels ==
    << Level(Drawn(<< >>)),
       Level(Drawn(<< <<200, H - 200>> >>)),
       Level(Drawn(<< <<202, H - 200>>, <<200, H - 200>> >>)),
       Level(Drawn(<< <<200, H - 200>>, <<202, H - 200>> >>)),
       Level(Spread(<< <<200, H - 200>>, <<200 + TILE, H - 200>> >>)) >>

\* a broad phase that looks only in the cell of the box's top-left corner
GetCollidersCorner(g, rect) == Query(g, Rect(rect.x, rect.y, 1, 1))

\* Level.get_colliders, as ids
GetColliders(g, rect) == Query(g, Inflate(rect, 2, 2))

----------------------------------------------------------------------------
(* Mario *)

\* a pressed-keys snapshot, by the keys the program reads
Snapshot(l, r, ls, rs, sp) ==
    [K_LEFT |-> l, K_RIGHT |-> r, K_LSHIFT |-> ls, K_RSHIFT |-> rs, K_SPACE |-> sp]

Shift(k) == k.K_LSHIFT \/ k.K_RSHIFT

\* Mario.__init__
NewMario(x, y) ==
    [pos_x |-> FInt(x), pos_y |-> FInt(y), vel_x |-> FZero, vel_y |-> FZero,
     rx |-> x, ry |-> y, on_ground |-> FALSE]

MarioRect(m) == Rect(m.rx, m.ry, MARIO_W, MARIO_H)

\* friction that does not stop at zero
FrictionThroughZero(vx) ==
    IF FGt(vx, FZero) THEN FSub(vx, FRICTION)
    ELSE IF FLt(vx, FZero) THEN FAdd(vx, FRICTION)
    ELSE vx

\* lines 141-144: friction toward zero, stopping at zero
Friction(vx) ==
    IF FGt(vx, FZero) THEN FMax(FZero, FSub(vx, FRICTION))
    ELSE IF FLt(vx, FZero) THEN FMin(FZero, FAdd(vx, FRICTION))
    ELSE vx

\* acceleration that takes the running rate whatever the shift keys
AccelerateAlwaysRun(vx, k) ==
    IF k.K_LEFT /\ ~k.K_RIGHT THEN FSub(vx, RUN_ACCEL)
    ELSE IF k.K_RIGHT /\ ~k.K_LEFT THEN FAdd(vx, RUN_ACCEL)
    ELSE Friction(vx)

\* lines 130-144: acceleration toward the held direction, else friction
Accelerate(vx, k) ==
    LET accel == IF Shift(k) THEN RUN_ACCEL ELSE WALK_ACCEL
    IN  IF k.K_LEFT /\ ~k.K_RIGHT THEN FSub(vx, accel)
        ELSE IF k.K_RIGHT /\ ~k.K_LEFT THEN FAdd(vx, accel)
        ELSE Friction(vx)

\* a clamp that takes the running cap whatever the shift keys
ClampSpeedAlwaysRun(vx, k) ==
    LET max_speed == FInt(MAX_RUN)
        v1 == IF FGt(vx, max_speed) THEN max_speed ELSE vx
    IN  IF FLt(v1, FNeg(max_speed)) THEN FNeg(max_speed) ELSE v1

\* lines 146-148: the clamp to the int max_speed
ClampSpeed(vx, k) ==
    LET max_speed == FInt(IF Shift(k) THEN MAX_RUN ELSE MAX_WALK)
        v1 == IF FGt(vx, max_speed) THEN max_speed ELSE vx
    IN  IF FLt(v1, FNeg(max_speed)) THEN FNeg(max_speed) ELSE v1

\* a jump that fires whenever space is held, in the air too
JumpAnywhere(m, k) ==
    IF k.K_SPACE
    THEN [m EXCEPT !.vel_y = JUMP_VELOCITY, !.on_ground = FALSE]
    ELSE m

\* lines 150-152: the jump impulse
Jump(m, k) ==
    IF k.K_SPACE /\ m.on_ground
    THEN [m EXCEPT !.vel_y = JUMP_VELOCITY, !.on_ground = FALSE]
    ELSE m

\* line 155: gravity up to the terminal fall speed
Gravity(vy) == FMin(FAdd(vy, GRAVITY), FInt(TERMINAL_VY))

\* an X pass that moves the box off the obstacle and leaves pos_x where it was
ResolveOneXKeepPos(m, p) ==
    IF ~CollideRect(MarioRect(m), p) THEN m
    ELSE LET x == IF FGt(m.vel_x, FZero) THEN p.x - MARIO_W
                  ELSE IF FLt(m.vel_x, FZero) THEN Right(p)
                  ELSE m.rx
         IN  [m EXCEPT !.rx = x, !.vel_x = FZero]

\* lines 161-167: one obstacle of the X pass
ResolveOneX(m, p) ==
    IF ~CollideRect(MarioRect(m), p) THEN m
    ELSE LET x == IF FGt(m.vel_x, FZero) THEN p.x - MARIO_W
                  ELSE IF FLt(m.vel_x, FZero) THEN Right(p)
                  ELSE m.rx
         IN  [m EXCEPT !.rx = x, !.pos_x = FInt(x), !.vel_x = FZero]

RECURSIVE ResolveX(_, _, _, _)
ResolveX(m, P, cands, i) ==
    IF i > Len(cands) THEN m
    ELSE ResolveX(ResolveOneX(m, P[cands[i]]), P, cands, i + 1)

\* lines 158-159: the move along X and the rect sync
AdvanceX(m) ==
    LET px == FAdd(m.pos_x, m.vel_x)
    IN  [m EXCEPT !.pos_x = px, !.rx = FTrunc(px)]

\* lines 158-167
MoveX(m, P, G) ==
    LET m1 == AdvanceX(m)
    IN  ResolveX(m1, P, GetColliders(G, MarioRect(m1)), 1)

\* a Y pass that stops the body where it is, inside the obstacle
ResolveOneYStop(m, p) ==
    IF ~CollideRect(MarioRect(m), p) THEN m
    ELSE [m EXCEPT !.pos_y = FInt(m.ry), !.vel_y = FZero,
                   !.on_ground = IF FGt(m.vel_y, FZero) THEN TRUE ELSE @]

\* lines 174-181: one obstacle of the Y pass
ResolveOneY(m, p) ==
    IF ~CollideRect(MarioRect(m), p) THEN m
    ELSE LET down == FGt(m.vel_y, FZero)
             y == IF down THEN p.y - MARIO_H
                  ELSE IF FLt(m.vel_y, FZero) THEN Bottom(p)
                  ELSE m.ry
         IN  [m EXCEPT !.ry = y, !.pos_y = FInt(y), !.vel_y = FZero,
                       !.on_ground = IF down THEN TRUE ELSE @]

RECURSIVE ResolveY(_, _, _, _)
ResolveY(m, P, cands, i) ==
    IF i > Len(cands) THEN m
    ELSE ResolveY(ResolveOneY(m, P[cands[i]]), P, cands, i + 1)

\* lines 170-172: the move along Y, the rect sync and the reset of on_ground
AdvanceY(m) ==
    LET py == FAdd(m.pos_y, m.vel_y)
    IN  [m EXCEPT !.pos_y = py, !.ry = FTrunc(py), !.on_ground = FALSE]

\* lines 170-181
MoveY(m, P, G) ==
    LET m1 == AdvanceY(m)
    IN  ResolveY(m1, P, GetColliders(G, MarioRect(m1)), 1)

\* the body after line 155: velocities set, nothing moved yet
Intent(m, k) ==
    LET m1 == [m EXCEPT !.vel_x = ClampSpeed(Accelerate(m.vel_x, k), k)]
        m2 == Jump(m1, k)
    IN  [m2 EXCEPT !.vel_y = Gravity(m2.vel_y)]

\* Mario.step
MarioStep(m, k, P, G) == MoveY(MoveX(Intent(m, k), P, G), P, G)

----------------------------------------------------------------------------
(* Overworld *)

\* Overworld.__init__: the first node selected, the first level unlocked
Overworld == [current_index |-> 0, unlocked |-> 1]

\* a move that checks the new index against unlocked only
OverworldMoveBelow(o, dx, dy) ==
    LET new == o.current_index + dx + dy * COLS
    IN  IF new < o.unlocked THEN [o EXCEPT !.current_index = new] ELSE o

\* Overworld.move
OverworldMove(o, dx, dy) ==
    LET new == o.current_index + dx + dy * COLS
    IN  IF 0 <= new /\ new < o.unlocked THEN [o EXCEPT !.current_index = new] ELSE o

\* line 345: the next level is unlocked, up to the number of nodes
Unlock(o) ==
    [o EXCEPT !.unlocked = IF @ + 1 < TOTAL_LEVELS THEN @ + 1 ELSE TOTAL_LEVELS]

----------------------------------------------------------------------------
(* The input source: which keys the player holds, tick by tick *)

NoKeys   == Snapshot(FALSE, FALSE, FALSE, FALSE, FALSE)
KLeft    == Snapshot(TRUE, FALSE, FALSE, FALSE, FALSE)
KRight   == Snapshot(FALSE, TRUE, FALSE, FALSE, FALSE)
KBoth    == Snapshot(TRUE, TRUE, FALSE, FALSE, FALSE)
KShift   == Snapshot(FALSE, FALSE, TRUE, FALSE, FALSE)
KRun     == Snapshot(FALSE, TRUE, TRUE, FALSE, FALSE)
KRunL    == Snapshot(TRUE, FALSE, TRUE, FALSE, FALSE)
KRunJump == Snapshot(FALSE, TRUE, TRUE, FALSE, TRUE)
KRunLJump == Snapshot(TRUE, FALSE, TRUE, FALSE, TRUE)
KJump    == Snapshot(FALSE, FALSE, FALSE, FALSE, TRUE)

\* every snapshot with at most one shift key down, and two with the right one
AllKeys ==
    { Snapshot(l, r, ls, FALSE, sp) : l \in BOOLEAN, r \in BOOLEAN, ls \in BOOLEAN, sp \in BOOLEAN }
    \cup { Snapshot(FALSE, TRUE, FALSE, TRUE, FALSE), Snapshot(TRUE, FALSE, TRUE, TRUE, TRUE) }

Rep(k, n) == [i \in 1..n |-> k]

\* bounds on the ticks a player goes on after the scripted part of a plan
MaxFree == 2
MaxHeld == 13

\* A plan: the snapshots of the first ticks (script), then any snapshot of a set
\* (free) for at most extra more ticks.  Every plan starts at the spawn point.
Plan(script, free, extra) == [script |-> script, free |-> free, extra |-> extra]

Plans ==
    [ idle     |-> Plan(<< >>, {NoKeys}, MaxHeld),
      left     |-> Plan(<< >>, {KLeft}, MaxHeld),
      landleft |-> Plan(Rep(NoKeys, 10), {KLeft}, MaxHeld),
      coastR   |-> Plan(Rep(KRight, 4), {NoKeys, KBoth}, MaxHeld),
      coastL   |-> Plan(Rep(KRunL, 3), {KShift, Snapshot(TRUE, TRUE, FALSE, TRUE, FALSE)}, MaxHeld),
      coastRun |-> Plan(Rep(KRun, 10), {NoKeys, KBoth}, MaxHeld),
      any      |-> Plan(<< >>, AllKeys, MaxFree),
      landany  |-> Plan(Rep(NoKeys, 10), AllKeys, MaxFree),
      runany   |-> Plan(Rep(NoKeys, 10) \o Rep(KRun, 10), AllKeys, MaxFree),
      wall     |-> Plan(Rep(NoKeys, 10) \o Rep(KRunJump, 23), AllKeys, MaxFree),
      back     |-> Plan(Rep(NoKeys, 10) \o Rep(KRun, 32) \o Rep(KRunLJump, 21), AllKeys, MaxFree),
      fall     |-> Plan(Rep(NoKeys, 10) \o Rep(KRunL, 39), AllKeys, MaxFree),
      edge     |-> Plan(Rep(NoKeys, 10) \o Rep(KRunL, 14) \o Rep(KRun, 11), AllKeys, MaxFree) ]

PlanNames == DOMAIN Plans

Scripted == ticks < Len(Plans[player].script)

----------------------------------------------------------------------------
(* Mario.step, tick by tick *)

TypeOK ==
    /\ player \in PlanNames \cup {"free", "clear"}
    /\ ticks \in Nat
    /\ mario.on_ground \in BOOLEAN

Init ==
    /\ rects = << >>
    /\ grid = EmptyGrid
    /\ level \in 1..Len(Levels)
    /\ player \in PlanNames
    /\ mario = NewMario(SPAWN_X, SPAWN_Y)
    /\ mid = NewMario(SPAWN_X, SPAWN_Y)
    /\ keys = NoKeys
    /\ ticks = 0
    /\ clearing = FALSE
    /\ walking = FALSE
    /\ accumulator = FZero
    /\ camera_x = 0
    /\ outcome = "running"
    /\ elapsed_ms = 0
    /\ frames = 0
    /\ keys_uses = 0
    /\ pc = "events"
    /\ overworld = Overworld
    /\ entered = 0

\* one call mario.step(k, level)
StepWith(k) ==
    /\ keys' = k
    /\ mid' = AdvanceX(Intent(mario, k))
    /\ mario' = MarioStep(mario, k, Levels[level].platforms, Levels[level].grid)
    /\ ticks' = ticks + 1
    /\ UNCHANGED <<rects, grid, level, overworld, entered, player, clearing, walking, accumulator,
                   camera_x, outcome, elapsed_ms, frames, keys_uses, pc>>

ScriptedStep ==
    /\ Scripted
    /\ StepWith(Plans[player].script[ticks + 1])

FreeStep ==
    /\ ~Scripted
    /\ ticks < Len(Plans[player].script) + Plans[player].extra
    /\ \E k \in Plans[player].free : StepWith(k)

Next == ScriptedStep \/ FreeStep

Spec == Init /\ [][Next]_vars

----------------------------------------------------------------------------
(* Properties of Mario.step *)

Platforms == Levels[level].platforms

\* ticks for which the player has gone on after the scripted part of the plan
Held == ticks - Len(Plans[player].script)

\* the static rectangle p carries the box of m: bottom on its top, overlapping in x
Atop(m, p) ==
    /\ Bottom(MarioRect(m)) = p.y
    /\ m.rx < Right(p) /\ p.x < m.rx + MARIO_W

AtRest(m) ==
    /\ m.vel_x = FZero /\ m.vel_y = FZero
    /\ \E i \in 1..Len(Platforms) : Atop(m, Platforms[i])

\* C1: a body at rest atop a tile, stepped once with no key held, has vel_y
\* raised to GRAVITY inside the step and ends the tick with vel_y = 0, on_ground
\* true and its box bottom where it was, on the tile's top.
C1_RestOneTick ==
    [][(AtRest(mario) /\ ticks' = ticks + 1 /\ keys' = NoKeys)
         => /\ mid'.vel_y = GRAVITY
            /\ mario'.vel_y = FZero
            /\ mario'.on_ground
            /\ mario'.ry = mario.ry]_vars

\* C2: once a body standing still on a tile has on_ground true after a tick,
\* a further tick with no key held leaves on_ground true.
C2_GroundStays ==
    [][(AtRest(mario) /\ mario.on_ground /\ ticks' = ticks + 1 /\ keys' = NoKeys)
         => mario'.on_ground]_vars

\* C3: after every step |vel_x| <= MAX_RUN if a shift key was down in the step's
\* snapshot and <= MAX_WALK otherwise, and vel_y <= the terminal fall speed.
C3_SpeedClamp ==
    ticks > 0 =>
        LET cap == FInt(IF Shift(keys) THEN MAX_RUN ELSE MAX_WALK)
        IN  /\ FLe(mario.vel_x, cap)
            /\ FGe(mario.vel_x, FNeg(cap))
            /\ FLe(mario.vel_y, FInt(TERMINAL_VY))

\* a step without a shift key cut a running speed down to MAX_WALK, and a fall
\* reached the terminal speed
C3_Witness ==
    \/ /\ player = "runany" /\ ~Scripted /\ ~Shift(keys) /\ keys.K_RIGHT /\ ~keys.K_LEFT
       /\ mario.vel_x = FInt(MAX_WALK)
    \/ /\ player = "fall" /\ mario.vel_y = FInt(TERMINAL_VY) /\ FLt(mario.vel_x, FZero)

\* the obstacles the box intersects right after the move along X (line 159)
Hits == { i \in 1..Len(Platforms) : CollideRect(MarioRect(mid), Platforms[i]) }

MovingRight == FGt(mid.vel_x, FZero)
MovingLeft == FLt(mid.vel_x, FZero)

\* the face of p the body runs into
NearFace(p) == IF MovingRight THEN p.x ELSE Right(p)

\* the body's leading edge is on the near face of p
Flush(p) == IF MovingRight THEN mario.rx + MARIO_W = p.x ELSE mario.rx = Right(p)

\* the box as the X pass left it: the Y pass changes neither rect.x nor the
\* obstacles' x extent
PastNearFace(p) == CollideRect(Rect(mario.rx, mid.ry, MARIO_W, MARIO_H), p)

\* C4: a moving body whose box enters an obstacle ends the tick flush against
\* it (rect.right = obstacle.left moving right, rect.left = obstacle.right
\* moving left) with vel_x = 0, and at the end of no tick is its leading edge
\* past the near face of an obstacle.
C4_NoTunnel ==
    (ticks > 0 /\ (MovingRight \/ MovingLeft)) =>
        \A i \in 1..Len(Platforms) :
            /\ i \in Hits => (Flush(Platforms[i]) /\ mario.vel_x = FZero)
            /\ ~PastNearFace(Platforms[i])

NoHorizontal(k) == k.K_LEFT = k.K_RIGHT

\* C5: with no horizontal input a step brings a positive vel_x strictly down and
\* never below 0, a negative one strictly up and never above 0, and leaves 0 at
\* 0; from walking speed vel_x is exactly 0 within ten such ticks.
C5_Friction ==
    /\ [][(ticks' = ticks + 1 /\ NoHorizontal(keys'))
            => /\ FGt(mario.vel_x, FZero) =>
                    (FLt(mario'.vel_x, mario.vel_x) /\ FGe(mario'.vel_x, FZero))
               /\ FLt(mario.vel_x, FZero) =>
                    (FGt(mario'.vel_x, mario.vel_x) /\ FLe(mario'.vel_x, FZero))
               /\ mario.vel_x = FZero => mario'.vel_x = FZero]_vars
    /\ []((player \in {"coastR", "coastL"} /\ Held >= 10) => mario.vel_x = FZero)

\* friction has just brought a positive vel_x that was below FRICTION to 0
C5_Witness ==
    /\ player = "coastR" /\ Held = 9
    /\ mario.vel_x = FZero
    /\ mid.vel_x = FZero
    /\ mario.rx > SPAWN_X

\* a * c for a small int c
BMul(a, c) ==
    LET s1 == a[1] * c
        s2 == a[2] * c + (s1 \div LimbBase)
        s3 == a[3] * c + (s2 \div LimbBase)
        s4 == a[4] * c + (s3 \div LimbBase)
        s5 == a[5] * c + (s4 \div LimbBase)
    IN  <<s1 % LimbBase, s2 % LimbBase, s3 % LimbBase, s4 % LimbBase, s5>>

\* |v - (-4k/10)| <= 2^-50, for a float v <= 0 and an int k >= 0
NearWalk(v, k) ==
    LET a == BMul(v.mag, 5)
        b == <<0, 0, 0, 0, 2 * k>>
        d == IF BCmp(a, b) >= 0 THEN BSub(a, b) ELSE BSub(b, a)
    IN  /\ (v.neg \/ v = FZero)
        /\ BCmp(d, <<5 * Pow2(14) - LimbBase, 1, 0, 0, 0>>) <= 0

\* C6 (as stated): with only left held from vel_x = 0, vel_x is -0.4 * k after k
\* ticks up to the 10th, exactly -4 after the 10th and after every later one.
C6_Original ==
    (player \in {"left", "landleft"} /\ Held >= 0) =>
        /\ Held <= 10 => NearWalk(mario.vel_x, Held)
        /\ Held >= 10 => mario.vel_x = FInt(-MAX_WALK)

\* C6 (amended): vel_x is within 2^-50 of -0.4 * k after k ticks up to the 10th,
\* still above -4 after the 10th, and exactly -4 from the 11th on.
C6_WalkLeft ==
    (player \in {"left", "landleft"} /\ Held >= 0) =>
        /\ Held <= 10 => NearWalk(mario.vel_x, Held)
        /\ Held = 10 => FGt(mario.vel_x, FInt(-MAX_WALK))
        /\ Held >= 11 => mario.vel_x = FInt(-MAX_WALK)

\* the 11th tick of holding left clamped vel_x to exactly -MAX_WALK
C6_Witness ==
    /\ player = "left" /\ Held = 11
    /\ mario.vel_x = FInt(-MAX_WALK)
    /\ keys = KLeft

----------------------------------------------------------------------------
(* SpatialGrid on its own: any sequence of add calls, any query *)

\* bound on the rectangles created
MaxRects == 2

\* rectangles handed to add: in one cell, across two, three and four cells, on
\* cell borders, and at negative coordinates
GridRects ==
    { Rect(0, 0, TILE, TILE), Rect(TILE - 1, TILE - 1, 2, 2), Rect(-1, -1, 2, 2),
      Rect(TILE, 0, 2 * TILE, TILE), Rect(10, 10, 100, 5), Rect(-50, 20, 20, 70),
      Rect(2 * TILE - 1, 0, 1, 1), Rect(5, 45, 30, 30) }

\* the cells looked at
CellRange == -2..3

\* how often x occurs in s from index j on
RECURSIVE Count(_, _, _)
Count(s, x, j) ==
    IF j > Len(s) THEN 0 ELSE (IF s[j] = x THEN 1 ELSE 0) + Count(s, x, j + 1)

\* add was called n times with the rectangle id
AddedTimes(g, id, n) ==
    LET cells == CellsFor(rects[id])
    IN  \A j \in 1..Len(cells) :
            cells[j] \in DOMAIN g /\ Count(g[cells[j]], id, 1) = n

InitGrid ==
    /\ rects = << >>
    /\ grid = EmptyGrid
    /\ level = 1
    /\ player = "idle"
    /\ mario = NewMario(SPAWN_X, SPAWN_Y)
    /\ mid = NewMario(SPAWN_X, SPAWN_Y)
    /\ keys = NoKeys
    /\ ticks = 0
    /\ clearing = FALSE
    /\ walking = FALSE
    /\ accumulator = FZero
    /\ camera_x = 0
    /\ outcome = "running"
    /\ elapsed_ms = 0
    /\ frames = 0
    /\ keys_uses = 0
    /\ pc = "events"
    /\ overworld = Overworld
    /\ entered = 0

\* grid.add(r) for a rectangle r just created
AddNew ==
    /\ Len(rects) < MaxRects
    /\ \E r \in GridRects :
        /\ rects' = Append(rects, r)
        /\ grid' = GridAdd(grid, r, Len(rects) + 1)
    /\ UNCHANGED <<level, overworld, entered, mario, keys, mid, player, ticks, clearing, walking,
                   accumulator, camera_x, outcome, elapsed_ms, frames, keys_uses, pc>>

\* grid.add(r) once more for a rectangle that was added once
AddAgain ==
    /\ \E id \in 1..Len(rects) :
        /\ AddedTimes(grid, id, 1)
        /\ grid' = GridAdd(grid, rects[id], id)
    /\ UNCHANGED <<rects, level, overworld, entered, mario, keys, mid, player, ticks, clearing, walking,
                   accumulator, camera_x, outcome, elapsed_ms, frames, keys_uses, pc>>

NextGrid == AddNew \/ AddAgain

SpecGrid == InitGrid /\ [][NextGrid]_vars

\* the cell <<cx, cy>> as a region of the plane
CellRect(cx, cy) == Rect(cx * TILE, cy * TILE, TILE, TILE)

\* rectangles lying inside the cell <<cx, cy>>: the whole cell, its corners,
\* its last column, something in the middle
ProbesIn(cx, cy) ==
    { Rect(cx * TILE + d[1], cy * TILE + d[2], d[3], d[4]) :
        d \in { <<0, 0, TILE, TILE>>, <<0, 0, 1, 1>>, <<TILE - 1, TILE - 1, 1, 1>>,
                <<TILE - 1, 0, 1, TILE>>, <<13, 7, 20, 30>> } }

\* C7: for every inserted rectangle R and every cell C that R overlaps, query on
\* a rectangle lying inside C returns a result that contains R.
C7_GridCoverage ==
    \A id \in 1..Len(rects) : \A cx \in CellRange, cy \in CellRange :
        CollideRect(rects[id], CellRect(cx, cy)) =>
            \A q \in ProbesIn(cx, cy) : InSeq(id, Query(grid, q))

\* a rectangle across four cells, one of them at negative coordinates, is found
\* from the far corner of each, next to another rectangle
C7_Witness ==
    /\ Len(rects) = 2
    /\ rects[2] = Rect(-1, -1, 2, 2)
    /\ rects[1] = Rect(0, 0, TILE, TILE)
    /\ InSeq(2, Query(grid, Rect(-TILE, -TILE, 1, 1)))
    /\ InSeq(2, Query(grid, Rect(TILE - 1, -TILE, 1, 1)))
    /\ InSeq(2, Query(grid, Rect(-TILE, TILE - 1, 1, 1)))
    /\ Query(grid, Rect(TILE - 1, TILE - 1, 1, 1)) = <<1, 2>>

\* query regions: every cell looked at, and each rectangle's own extent, as it
\* is and inflated as get_colliders does
Regions ==
    { Rect(-2 * TILE, -2 * TILE, 6 * TILE, 6 * TILE), Rect(0, 0, 2 * TILE, 2 * TILE) }
    \cup { r : r \in GridRects } \cup { Inflate(r, 2, 2) : r \in GridRects }

\* every cell of a is a cell of q
CoversCells(q, a) == \A j \in 1..Len(CellsFor(a)) : InSeq(CellsFor(a)[j], CellsFor(q))

\* C8: no query returns a rectangle twice, and a rectangle added once that
\* spans more than one cell is exactly once in the result of a query whose
\* region covers all its cells.
C8_QueryDedup ==
    \A q \in Regions :
        LET res == Query(grid, q)
        IN  /\ \A id \in 1..Len(rects) : Count(res, id, 1) <= 1
            /\ \A id \in 1..Len(rects) :
                (/\ Len(CellsFor(rects[id])) > 1
                 /\ AddedTimes(grid, id, 1)
                 /\ CoversCells(q, rects[id]))
                => Count(res, id, 1) = 1

\* a rectangle held by four buckets comes back once from a query over all four,
\* and so does one that was added twice
C8_Witness ==
    /\ Len(rects) = 2
    /\ rects[1] = Rect(TILE - 1, TILE - 1, 2, 2)
    /\ rects[2] = Rect(TILE, 0, 2 * TILE, TILE)
    /\ AddedTimes(grid, 1, 1)
    /\ AddedTimes(grid, 2, 2)
    /\ Len(grid[<<1, 0>>]) = 3
    /\ Query(grid, Rect(0, 0, 2 * TILE, 2 * TILE)) = <<1, 2>>

----------------------------------------------------------------------------
(* play_level: the frame loop with its fixed-step drain *)

\* line 288: dt_ms / 1000.0
Seconds(dt_ms) == FDiv(dt_ms, 1000)

\* the locals of play_level that the drain loop works on
Locals(m, cl, wa, acc, cam, oc, n, uses) ==
    [mario |-> m, clearing |-> cl, walking |-> wa, accumulator |-> acc,
     camera_x |-> cam, outcome |-> oc, ticks |-> n, keys_uses |-> uses]

\* a clear that starts the walk without looking at the box's bottom
ClearStepNoDescent(s) ==
    IF ~s.walking THEN [s EXCEPT !.walking = TRUE]
    ELSE LET px == FAdd(s.mario.pos_x, FInt(2))
         IN  [s EXCEPT !.mario.pos_x = px, !.mario.rx = FTrunc(px),
                       !.outcome = IF FTrunc(px) > LEVEL_WIDTH - 400 THEN "cleared" ELSE @]

\* a walk that tests the box for the castle before it moves it
ClearStepLate(s) ==
    IF ~s.walking
    THEN IF Bottom(MarioRect(s.mario)) < H - TILE
         THEN LET py == FAdd(s.mario.pos_y, FInt(4))
              IN  [s EXCEPT !.mario.pos_y = py, !.mario.ry = FTrunc(py)]
         ELSE [s EXCEPT !.walking = TRUE]
    ELSE LET px == FAdd(s.mario.pos_x, FInt(2))
             s1 == [s EXCEPT !.mario.pos_x = px, !.mario.rx = FTrunc(px)]
         IN  IF s.mario.rx > LEVEL_WIDTH - 400
             THEN [s1 EXCEPT !.outcome = "cleared"]
             ELSE s1

\* lines 295-306: the flag animation, then the walk to the castle
ClearStep(s) ==
    IF ~s.walking
    THEN IF Bottom(MarioRect(s.mario)) < H - TILE
         THEN LET py == FAdd(s.mario.pos_y, FInt(4))
              IN  [s EXCEPT !.mario.pos_y = py, !.mario.ry = FTrunc(py)]
         ELSE [s EXCEPT !.walking = TRUE]
    ELSE LET px == FAdd(s.mario.pos_x, FInt(2))
             s1 == [s EXCEPT !.mario.pos_x = px, !.mario.rx = FTrunc(px)]
         IN  IF s1.mario.rx > LEVEL_WIDTH - 400
             THEN [s1 EXCEPT !.outcome = "cleared"]
             ELSE s1

\* lines 308-313: the camera follows the body, within the level
Camera(s) ==
    IF s.clearing THEN s
    ELSE LET max_scroll == IF LEVEL_WIDTH - W > 0 THEN LEVEL_WIDTH - W ELSE 0
             c == CenterX(MarioRect(s.mario)) - (W \div 2)
             c1 == IF c < 0 THEN 0 ELSE c
         IN  [s EXCEPT !.camera_x = IF c1 > max_scroll THEN max_scroll ELSE c1]

\* a flag test that also takes a box that only touches the flag
TouchFlagAtEdge(s) ==
    IF ~s.clearing /\ CollideRect(Inflate(MarioRect(s.mario), 2, 2), FlagRect)
    THEN [s EXCEPT !.clearing = TRUE, !.mario.vel_x = FZero, !.mario.vel_y = FZero]
    ELSE s

\* lines 315-319: touching the flag begins the clear
TouchFlag(s) ==
    IF ~s.clearing /\ CollideRect(MarioRect(s.mario), FlagRect)
    THEN [s EXCEPT !.clearing = TRUE, !.mario.vel_x = FZero, !.mario.vel_y = FZero]
    ELSE s

\* lines 292-306: a physics step with the frame's snapshot k or, once the flag is
\* touched, a step of the clear
Body(s, k, lv) ==
    IF ~s.clearing
    THEN [s EXCEPT !.mario = MarioStep(s.mario, k, Levels[lv].platforms, Levels[lv].grid),
                   !.keys_uses = @ + 1]
    ELSE ClearStep(s)

\* line 321: accumulator -= FIXED_DT, and the pass of the loop is counted
Consume(s) == [s EXCEPT !.accumulator = FSub(@, FIXED_DT), !.ticks = @ + 1]

\* lines 306-321: return True leaves at once, otherwise camera, flag, accumulator
EndTick(s) == IF s.outcome = "cleared" THEN s ELSE Consume(TouchFlag(Camera(s)))

\* lines 292-321: one pass of the drain loop's body
Tick(s, k, lv) == CHOOSE r \in { EndTick(b) : b \in {Body(s, k, lv)} } : TRUE

\* a drain that runs at most one tick per frame
DrainIf(s, k, lv) ==
    IF FLt(s.accumulator, FIXED_DT) THEN s ELSE Tick(s, k, lv)

\* line 291: while accumulator >= FIXED_DT.  (The locals are bound as an element
\* of a set, which evaluates them once for the pass.)
RECURSIVE Drain(_, _, _)
Drain(s, k, lv) ==
    CHOOSE r \in { IF x.outcome # "running" \/ FLt(x.accumulator, FIXED_DT) THEN x
                   ELSE Drain(Tick(x, k, lv), k, lv) : x \in {s} } : TRUE

\* a frame: the snapshot get_pressed returns and the dt_ms the clock returns
Frame(k, dt_ms) == [keys |-> k, dt_ms |-> dt_ms]

\* bound on the frames of a session played freely
MaxFrames == 3

\* frame durations: the 60 Hz cap gives 16 or 17 ms, a slow frame more
FreeFrames ==
    { Frame(k, dt) : k \in {NoKeys, KRunJump}, dt \in {16, 17, 34, 46, 50, 54} }

\* run and jump to the flag at 20 frames a second
FramesToClear == 112

Sessions ==
    [ free  |-> Plan(<< >>, FreeFrames, MaxFrames),
      clear |-> Plan(Rep(Frame(KRunJump, 50), FramesToClear), {Frame(NoKeys, 16)}, 0) ]

SessionNames == DOMAIN Sessions

InitPlay ==
    /\ rects = << >>
    /\ grid = EmptyGrid
    /\ level = 1
    /\ player \in SessionNames
    /\ mario = NewMario(SPAWN_X, SPAWN_Y)
    /\ mid = NewMario(SPAWN_X, SPAWN_Y)
    /\ keys = NoKeys
    /\ ticks = 0
    /\ clearing = FALSE
    /\ walking = FALSE
    /\ accumulator = FZero
    /\ camera_x = 0
    /\ outcome = "running"
    /\ elapsed_ms = 0
    /\ frames = 0
    /\ keys_uses = 0
    /\ pc = "events"
    /\ overworld = Overworld
    /\ entered = 0

\* lines 277-327 without a quit or an effective Escape: snapshot, timing, drain
\* and render; the frame whose drain returns True (line 306) is not rendered
PlayFrame(f) ==
    /\ outcome = "running"
    /\ \E s \in { Drain(Locals(mario, clearing, walking,
                             FAdd(accumulator, Seconds(f.dt_ms)),
                             camera_x, outcome, ticks, 0), f.keys, level) } :
           /\ mario' = s.mario
           /\ clearing' = s.clearing
           /\ walking' = s.walking
           /\ accumulator' = s.accumulator
           /\ camera_x' = s.camera_x
           /\ outcome' = s.outcome
           /\ ticks' = s.ticks
           /\ keys_uses' = s.keys_uses
           /\ frames' = IF s.outcome = "cleared" THEN frames ELSE frames + 1
    /\ keys' = f.keys
    /\ elapsed_ms' = elapsed_ms + f.dt_ms
    /\ UNCHANGED <<rects, grid, level, overworld, entered, mid, player, pc>>

ScriptedFrame ==
    /\ frames < Len(Sessions[player].script)
    /\ PlayFrame(Sessions[player].script[frames + 1])

FreeFrame ==
    /\ frames >= Len(Sessions[player].script)
    /\ frames < Len(Sessions[player].script) + Sessions[player].extra
    /\ \E f \in Sessions[player].free : PlayFrame(f)

\* an Escape that ends the session at any pass of the loop, during the clear too
EscapeAnywhere ==
    /\ outcome = "running"
    /\ outcome' = "aborted"
    /\ UNCHANGED <<rects, grid, level, overworld, entered, mario, keys, mid, player, ticks, clearing,
                   walking, accumulator, camera_x, elapsed_ms, frames, keys_uses, pc>>

\* line 281-282: Escape while the level is not being cleared: return False
EscapeFrame ==
    /\ pc = "events"
    /\ outcome = "running"
    /\ ~clearing
    /\ outcome' = "aborted"
    /\ UNCHANGED <<rects, grid, level, overworld, entered, mario, keys, mid, player, ticks, clearing,
                   walking, accumulator, camera_x, elapsed_ms, frames, keys_uses, pc>>

\* line 279-280: the window is closed: sys.exit()
QuitFrame ==
    /\ pc = "events"
    /\ outcome = "running"
    /\ outcome' = "quit"
    /\ UNCHANGED <<rects, grid, level, overworld, entered, mario, keys, mid, player, ticks, clearing,
                   walking, accumulator, camera_x, elapsed_ms, frames, keys_uses, pc>>

NextPlay == ScriptedFrame \/ FreeFrame \/ EscapeFrame \/ QuitFrame

SpecPlay == InitPlay /\ [][NextPlay]_vars

\* floor(total measured elapsed time / FIXED_DT), in exact arithmetic
TicksDue == (elapsed_ms * FPS) \div 1000

\* C9 (as stated): after every frame that does not end the session
\* 0 <= accumulator < FIXED_DT and the ticks run so far number
\* floor(elapsed time / FIXED_DT), whatever the split into frames.
C9_Original ==
    (outcome = "running" /\ frames > 0) =>
        /\ FGe(accumulator, FZero) /\ FLt(accumulator, FIXED_DT)
        /\ ticks = TicksDue

\* C9 (amended): after every frame that does not end the session
\* 0 <= accumulator < FIXED_DT and the ticks run so far number
\* floor(elapsed time / FIXED_DT) or one less, one less only when the elapsed
\* time is a whole number of ticks.
C9_FixedStep ==
    (outcome = "running" /\ frames > 0) =>
        /\ FGe(accumulator, FZero) /\ FLt(accumulator, FIXED_DT)
        /\ ticks \in {TicksDue - 1, TicksDue}
        /\ (elapsed_ms * FPS) % 1000 # 0 => ticks = TicksDue

\* frames that ran no tick, one tick and several: 16 ms, then 17 or 34 ms, then
\* a frame of three ticks
C9_Witness ==
    /\ player = "free" /\ outcome = "running"
    /\ frames = 3 /\ keys_uses = 3
    /\ elapsed_ms \in {16 + 17 + 50, 16 + 34 + 50}
    /\ ticks = TicksDue

\* C10: no pressed-keys snapshot is passed to Mario.step for more than one tick.
C10_SnapshotOnce == keys_uses <= 1

----------------------------------------------------------------------------
(* play_level pass by pass: the drain loop one tick at a time *)

\* run to the flag and stop with the box's right edge on the flag's left edge
Graze ==
    Rep(Frame(KRun, 50), 78) \o Rep(Frame(KRight, 34), 2) \o Rep(Frame(KLeft, 34), 2)
    \o Rep(Frame(NoKeys, 50), 6)

\* run and jump into the side of the platforms drawn near the spawn point
IntoWall == <<Frame(KRunJump, 17)>> \o Rep(Frame(KRunJump, 50), 8)

\* frames of 50 ms of running and jumping before the body is on the flag
FramesToFlag == 81

\* Once the flag is touched the frames of a session go on for as long as the
\* loop runs (FreeBegin), each with any of the session's free frames.
TickSessions ==
    [ free  |-> Sessions.free,
      clear |-> Plan(Rep(Frame(KRunJump, 50), FramesToFlag), {Frame(NoKeys, 16)}, 0),
      graze |-> Plan(Graze, {Frame(NoKeys, 17)}, 1),
      wall  |-> Plan(IntoWall, {Frame(NoKeys, 17), Frame(KRunLJump, 34)}, 1) ]

InitTicks ==
    /\ rects = << >>
    /\ grid = EmptyGrid
    /\ player \in DOMAIN TickSessions
    /\ level = IF player = "wall" THEN 3 ELSE 1
    /\ mario = NewMario(SPAWN_X, SPAWN_Y)
    /\ mid = NewMario(SPAWN_X, SPAWN_Y)
    /\ keys = NoKeys
    /\ ticks = 0
    /\ clearing = FALSE
    /\ walking = FALSE
    /\ accumulator = FZero
    /\ camera_x = 0
    /\ outcome = "running"
    /\ elapsed_ms = 0
    /\ frames = 0
    /\ keys_uses = 0
    /\ pc = "events"
    /\ overworld = Overworld
    /\ entered = 0

\* lines 277-288 without a quit or an effective Escape: snapshot and timing
BeginFrame(f) ==
    /\ pc = "events"
    /\ outcome = "running"
    /\ keys' = f.keys
    /\ keys_uses' = 0
    /\ accumulator' = FAdd(accumulator, Seconds(f.dt_ms))
    /\ elapsed_ms' = elapsed_ms + f.dt_ms
    /\ pc' = "drain"
    /\ UNCHANGED <<rects, grid, level, overworld, entered, mario, mid, player, ticks, clearing, walking,
                   camera_x, outcome, frames>>

ScriptedBegin ==
    /\ frames < Len(TickSessions[player].script)
    /\ BeginFrame(TickSessions[player].script[frames + 1])

FreeBegin ==
    /\ frames >= Len(TickSessions[player].script)
    /\ \/ frames < Len(TickSessions[player].script) + TickSessions[player].extra
       \/ clearing
    /\ \E f \in TickSessions[player].free : BeginFrame(f)

\* lines 291-321: the loop condition holds, one pass of the body
DrainTick ==
    /\ pc = "drain"
    /\ outcome = "running"
    /\ FGe(accumulator, FIXED_DT)
    /\ \E s \in { Tick(Locals(mario, clearing, walking, accumulator, camera_x,
                              outcome, ticks, keys_uses), keys, level) } :
           /\ mario' = s.mario
           /\ clearing' = s.clearing
           /\ walking' = s.walking
           /\ accumulator' = s.accumulator
           /\ camera_x' = s.camera_x
           /\ outcome' = s.outcome
           /\ ticks' = s.ticks
           /\ keys_uses' = s.keys_uses
    /\ UNCHANGED <<rects, grid, level, overworld, entered, keys, mid, player, elapsed_ms, frames, pc>>

\* lines 291, 323-327: the loop condition fails, the frame is drawn
Render ==
    /\ pc = "drain"
    /\ outcome = "running"
    /\ FLt(accumulator, FIXED_DT)
    /\ pc' = "events"
    /\ frames' = frames + 1
    /\ UNCHANGED <<rects, grid, level, overworld, entered, mario, keys, mid, player, ticks, clearing,
                   walking, accumulator, camera_x, outcome, elapsed_ms, keys_uses>>

NextTicks ==
    ScriptedBegin \/ FreeBegin \/ DrainTick \/ Render \/ EscapeFrame \/ QuitFrame

SpecTicks == InitTicks /\ [][NextTicks]_vars

\* the box of the body properly intersects the flag
OnFlag(m) == CollideRect(MarioRect(m), FlagRect)

\* a pass of the drain loop that ran Mario.step
RunningTick == ~clearing /\ keys_uses' = keys_uses + 1

\* C11: a Running tick at whose end the box intersects the flag sets clearing,
\* with vel_x = vel_y = 0, before the next tick; a Running tick at whose end the
\* box does not intersect it (edge contact or apart) leaves the session Running.
C11_FlagEntry ==
    [][RunningTick =>
          /\ clearing' = OnFlag(mario')
          /\ clearing' => (mario'.vel_x = FZero /\ mario'.vel_y = FZero)
          /\ ~clearing' => outcome' = "running"]_vars

\* the tick that entered the clear, from the air and moving, and a box at rest
\* with its right edge on the flag's left edge in a session still Running
C11_Witness ==
    \/ /\ player = "clear" /\ clearing /\ ~walking /\ keys_uses = 1
       /\ OnFlag(mario) /\ mario.vel_x = FZero /\ mario.vel_y = FZero
       /\ Bottom(MarioRect(mario)) < H - TILE
    \/ /\ player = "graze" /\ ~clearing /\ frames > Len(Graze)
       /\ mario.rx + MARIO_W = FlagRect.x /\ mario.vel_x = FZero

\* the phase of the session: 0 Running, 1 clearing-descent, 2 clearing-walk,
\* 3 Cleared
Phase(cl, wa, oc) ==
    IF oc = "cleared" THEN 3
    ELSE IF ~cl THEN 0
    ELSE IF ~wa THEN 1
    ELSE 2

\* a pass of the drain loop, the one that returns True included
AnyTick == ticks' = ticks + 1 \/ (outcome = "running" /\ outcome' = "cleared")

\* C12: the session only moves forward through Running, clearing-descent,
\* clearing-walk, Cleared, a phase at a time; every tick while Running runs
\* Mario.step and no tick after clearing became true does; the walk begins only
\* with the box's bottom at ground level or below; vel_x and vel_y stay 0 from
\* goal contact on.
C12_Lifecycle ==
    [][/\ Phase(clearing', walking', outcome') >= Phase(clearing, walking, outcome)
       /\ Phase(clearing', walking', outcome') <= Phase(clearing, walking, outcome) + 1
       /\ (AnyTick /\ ~clearing) => keys_uses' = keys_uses + 1
       /\ clearing => keys_uses' \in {keys_uses, 0}
       /\ (AnyTick /\ clearing) => mario'.on_ground = mario.on_ground
       /\ (~walking /\ walking') => Bottom(MarioRect(mario)) >= H - TILE
       /\ clearing' => (mario'.vel_x = FZero /\ mario'.vel_y = FZero)]_vars

\* the session that touched the flag in mid-air went down the pole, walked and
\* returned True
C12_Witness ==
    /\ player = "clear" /\ outcome = "cleared"
    /\ clearing /\ walking
    /\ mario.ry > H - 200 /\ mario.rx > LEVEL_WIDTH - 400
    /\ mario.vel_x = FZero /\ mario.vel_y = FZero

\* C13: between ticks the box is in sync with the float position:
\* rect.x = trunc(pos_x) and rect.y = trunc(pos_y) after every Mario.step and
\* after every clearing tick, also when a collision moved the box.
C13_RectSync ==
    /\ mario.rx = FTrunc(mario.pos_x)
    /\ mario.ry = FTrunc(mario.pos_y)

\* a tick that ran into the side of a platform with right held put the box
\* flush and pos_x on the box
C13_Witness ==
    /\ player = "wall" /\ keys = KRunJump /\ keys_uses > 0
    /\ mario.vel_x = FZero
    /\ \E i \in 1..Len(Levels[level].platforms) :
          /\ Levels[level].platforms[i].y = H - 200
          /\ mario.rx + MARIO_W = Levels[level].platforms[i].x
    /\ mario.pos_x = FInt(mario.rx)

\* what the steps of Spec show of a Mario.step tick: mid is the body between
\* the two axis passes, with the tick's vertical velocity after gravity
StepTick == ticks' = ticks + 1

\* the tick set vel_y from JUMP_VELOCITY (gravity then acted on it once)
Impulse == StepTick /\ mid'.vel_y = Gravity(JUMP_VELOCITY)

\* the tick's Y pass resolved a downward collision: the body was falling, was
\* stopped, and stands with its bottom on the top of a platform under it
Landed ==
    /\ StepTick
    /\ FGt(mid'.vel_y, FZero)
    /\ mario'.vel_y = FZero
    /\ \E i \in 1..Len(Platforms) : Atop(mario', Platforms[i])

\* C15: the jump impulse is applied only when jump is held and on_ground was
\* true as the tick began; a tick that starts airborne changes vel_y by gravity
\* alone, whatever is held; the impulse tick ends airborne, and on_ground is
\* true after a tick only if that tick resolved a downward collision, so
\* between two impulse ticks there is a tick that landed.
C15_JumpFromGround ==
    [][/\ Impulse => (keys'.K_SPACE /\ mario.on_ground)
       /\ (StepTick /\ keys'.K_SPACE /\ mario.on_ground) => Impulse
       /\ (StepTick /\ ~mario.on_ground) => mid'.vel_y = Gravity(mario.vel_y)
       /\ Impulse => (~mario'.on_ground /\ ~Landed)
       /\ (StepTick /\ mario'.on_ground) => Landed]_vars

\* jump is still held on the tick after an impulse tick: the body is in the
\* air and its vertical velocity is the impulse plus gravity twice
C15_Witness ==
    /\ ticks > 1
    /\ keys.K_SPACE
    /\ ~mario.on_ground
    /\ mid.vel_y = Gravity(Gravity(JUMP_VELOCITY))
    /\ mario.vel_y = mid.vel_y

\* line 291: the loop condition of the drain holds
DrainDue == pc = "drain" /\ outcome = "running" /\ FGe(accumulator, FIXED_DT)

\* The control flow of the loop, read off pc, ticks and outcome alone.
\* lines 278-288: the session has a frame to give and the loop goes from the
\* events to the drain; ScriptedBegin and FreeBegin are the steps that do
BeginPass ==
    /\ pc = "events" /\ outcome = "running"
    /\ \/ frames < Len(TickSessions[player].script) + TickSessions[player].extra
       \/ clearing
    /\ pc' = "drain"
    /\ UNCHANGED <<ticks, outcome>>

\* lines 291-321: a due pass of the drain ends its tick or returns True;
\* DrainTick is the step that does
DrainPass ==
    /\ DrainDue
    /\ \/ ticks' = ticks + 1 /\ outcome' = outcome
       \/ ticks' = ticks /\ outcome' = "cleared"
    /\ pc' = pc

\* The loop of play_level has no way out but its two returns and sys.exit:
\* each pass polls the events, takes the clock's time, drains and draws.  A
\* pass that can be taken is taken.
SpecTicksFair ==
    /\ SpecTicks
    /\ WF_<<pc, ticks, outcome>>(BeginPass)
    /\ WF_<<pc, ticks, outcome>>(DrainPass)
    /\ WF_vars(Render)

\* a pass of the walk to the castle
WalkTick == clearing /\ walking /\ AnyTick

\* the tick on which play_level returns True
Returns == outcome = "running" /\ outcome' = "cleared"

\* C16: once clearing is true and frames keep coming (the window is not
\* closed), the session reaches Cleared: the descent ends in the walk, every
\* walk tick adds 2 to pos_x, and the walk returns True on the first tick that
\* leaves rect.x > width - 400, so the walk is still short of that while the
\* session runs.
C16_ClearCompletes ==
    /\ clearing ~> (outcome \in {"cleared", "quit"})
    /\ (clearing /\ ~walking) ~> (walking \/ outcome = "quit")
    /\ [][/\ WalkTick => mario'.pos_x = FAdd(mario.pos_x, FInt(2))
          /\ WalkTick => (Returns <=> mario'.rx > LEVEL_WIDTH - 400)
          /\ Returns => WalkTick]_vars
    /\ [](clearing /\ outcome = "running" => mario.rx <= LEVEL_WIDTH - 400)

\* the walk has returned True, on frames of 16 ms and of 50 ms after the touch
C16_Witness ==
    /\ player = "clear" /\ outcome = "cleared" /\ walking
    /\ mario.rx > LEVEL_WIDTH - 400
    /\ mario.rx <= LEVEL_WIDTH - 400 + 2
    /\ frames > FramesToFlag + 10
    /\ elapsed_ms % 50 # 0

\* play_level returns False
Aborts == outcome # "aborted" /\ outcome' = "aborted"

\* C17: the session is aborted only at the event poll of a frame, before the
\* frame's drain has begun and with no tick under way (the body, the tick
\* count and the accumulator are as the last frame left them), and only while
\* it is Running: once clearing is true no Escape ends it, and it is never
\* found aborted.
C17_AbortAtPoll ==
    /\ [][Aborts => /\ pc = "events" /\ pc' = "events"
                    /\ outcome = "running"
                    /\ ~clearing
                    /\ UNCHANGED <<mario, ticks, accumulator, camera_x, keys_uses, frames>>]_vars
    /\ [](clearing => outcome # "aborted")

\* aborted by Escape after frames that ran ticks, the body in the air
C17_Witness ==
    /\ outcome = "aborted" /\ ~clearing /\ pc = "events"
    /\ frames > 0 /\ ticks > 0
    /\ ~mario.on_ground /\ mario.vel_y # FZero

\* the obstacles a scan of all of level.platforms finds for the box B
Brute(B) == { i \in 1..Len(Platforms) : CollideRect(B, Platforms[i]) }

\* the obstacles the loops of Mario.step find: the candidates of
\* get_colliders, tested again with colliderect
Narrow(B) ==
    LET cands == GetColliders(Levels[level].grid, B)
    IN  { i \in { cands[j] : j \in 1..Len(cands) } : CollideRect(B, Platforms[i]) }

\* body boxes: the two boxes the tick queried (after the move along X, at the
\* end of the tick) and boxes a step aside of them, off the tile raster
ProbeShift == {0 - (TILE + 1), 0, TILE + 1}

BodyBoxes ==
    { Rect(b.x + dx, b.y + dy, MARIO_W, MARIO_H) :
        b \in {MarioRect(mid), MarioRect(mario)}, dx \in ProbeShift, dy \in ProbeShift }

\* C18: in every level built by _add_block and for every body box B, each
\* static rectangle that intersects B is among get_colliders(B): the obstacles
\* Mario.step resolves against are those a scan of all platforms finds.
C18_BroadPhase == \A B \in BodyBoxes : Narrow(B) = Brute(B)

\* the box after the move along X is in two obstacles at once, and the loop of
\* the X pass found both
C18_Witness ==
    /\ ticks > 0
    /\ Cardinality(Hits) >= 2
    /\ Narrow(MarioRect(mid)) = Hits

\* no two of the static rectangles intersect
NonIntersecting(P) ==
    \A i \in 1..Len(P) : \A j \in (i + 1)..Len(P) : ~CollideRect(P[i], P[j])

\* the levels of the model built of pairwise non-intersecting rectangles
FreeLevels == { l \in 1..Len(Levels) : NonIntersecting(Levels[l].platforms) }

\* the box as the X pass of the tick left it: Y is moved afterwards
XBox == Rect(mario.rx, mid.ry, MARIO_W, MARIO_H)

\* C19: in a world of pairwise non-intersecting rectangles (a ground row and
\* one-tile platforms in the two bands), the body spawned free, the box
\* intersects no static rectangle at the end of a tick, whatever the inputs,
\* and the X pass leaves the box free of every obstacle it matched.
C19_BoxFree ==
    level \in FreeLevels =>
        /\ Brute(MarioRect(mario)) = {}
        /\ \A i \in Hits : ~CollideRect(XBox, Platforms[i])

\* in such a world the move along X took the box into a platform and the X
\* pass set it back, flush with the platform
C19_Witness ==
    /\ level \in FreeLevels
    /\ ticks > 0
    /\ Hits # {}
    /\ mario.rx # mid.rx
    /\ \E i \in Hits : mario.rx + MARIO_W = Platforms[i].x \/ mario.rx = Right(Platforms[i])

----------------------------------------------------------------------------
(* main: the map of levels.  play_level is taken by what it comes to: it     *)
(* returns True (Cleared) or False (Escape), both outcomes of SpecPlay.      *)

InitWorld ==
    /\ rects = << >>
    /\ grid = EmptyGrid
    /\ level = 1
    /\ player = "free"
    /\ mario = NewMario(SPAWN_X, SPAWN_Y)
    /\ mid = NewMario(SPAWN_X, SPAWN_Y)
    /\ keys = NoKeys
    /\ ticks = 0
    /\ clearing = FALSE
    /\ walking = FALSE
    /\ accumulator = FZero
    /\ camera_x = 0
    /\ outcome = "none"
    /\ elapsed_ms = 0
    /\ frames = 0
    /\ keys_uses = 0
    /\ pc = "events"
    /\ overworld = Overworld
    /\ entered = 0

\* lines 338-341: the four arrow keys as <<dx, dy>>
Arrows == { <<0 - 1, 0>>, <<1, 0>>, <<0, 0 - 1>>, <<0, 1>> }

OnMap == entered = 0 /\ outcome # "quit"

\* lines 337-341: an arrow key on the map
ArrowKey ==
    /\ OnMap
    /\ \E d \in Arrows : overworld' = OverworldMove(overworld, d[1], d[2])
    /\ UNCHANGED <<rects, grid, level, mario, keys, mid, player, ticks, clearing,
                   walking, accumulator, camera_x, outcome, elapsed_ms, frames,
                   keys_uses, pc, entered>>

\* lines 342-344: Return on the map calls play_level(current_index + 1)
ReturnKey ==
    /\ OnMap
    /\ overworld.current_index < overworld.unlocked
    /\ entered' = overworld.current_index + 1
    /\ outcome' = "running"
    /\ UNCHANGED <<rects, grid, level, mario, keys, mid, player, ticks, clearing,
                   walking, accumulator, camera_x, elapsed_ms, frames, keys_uses,
                   pc, overworld>>

\* lines 344-346: play_level returns cleared, and main unlocks on True
PlayLevelReturns ==
    /\ entered # 0
    /\ outcome = "running"
    /\ \E cleared \in BOOLEAN :
          /\ outcome' = IF cleared THEN "cleared" ELSE "aborted"
          /\ overworld' = IF cleared THEN Unlock(overworld) ELSE overworld
    /\ entered' = 0
    /\ UNCHANGED <<rects, grid, level, mario, keys, mid, player, ticks, clearing,
                   walking, accumulator, camera_x, elapsed_ms, frames, keys_uses, pc>>

\* lines 335-336 and 279-280: the window is closed, on the map or in a level
WindowClosed ==
    /\ outcome # "quit"
    /\ outcome' = "quit"
    /\ UNCHANGED <<rects, grid, level, mario, keys, mid, player, ticks, clearing,
                   walking, accumulator, camera_x, elapsed_ms, frames, keys_uses,
                   pc, overworld, entered>>

NextWorld == ArrowKey \/ ReturnKey \/ PlayLevelReturns \/ WindowClosed

SpecWorld == InitWorld /\ [][NextWorld]_vars

\* play_level has returned to main
Returned == entered # 0 /\ entered' = 0

\* C20: 0 <= current_index < unlocked <= len(nodes) throughout; a level is
\* entered only at an index below unlocked, and it is the level of the selected
\* node; unlocked never decreases, grows by exactly 1 (capped at the number
\* of nodes) when play_level returns True, and changes on no other step.
C20_Unlocked ==
    /\ [](/\ 0 <= overworld.current_index
          /\ overworld.current_index < overworld.unlocked
          /\ overworld.unlocked <= TOTAL_LEVELS)
    /\ [][/\ (entered = 0 /\ entered' # 0) =>
                 (entered' = overworld.current_index + 1 /\ entered' <= overworld.unlocked)
          /\ overworld'.unlocked >= overworld.unlocked
          /\ (Returned /\ outcome' = "cleared") =>
                 /\ overworld'.unlocked <= overworld.unlocked + 1
                 /\ overworld'.unlocked = overworld.unlocked + 1 \/ overworld.unlocked = TOTAL_LEVELS
                 /\ overworld'.current_index = overworld.current_index
          /\ (Returned /\ outcome' # "cleared") => overworld' = overworld
          /\ ~Returned => overworld'.unlocked = overworld.unlocked]_vars

\* every level is unlocked, the last node is selected, and play_level has
\* just returned True
C20_Witness ==
    /\ overworld.unlocked = TOTAL_LEVELS
    /\ overworld.current_index = TOTAL_LEVELS - 1
    /\ outcome = "cleared"
    /\ entered = 0

====
